---- MODULE Spec2Model ----
(***************************************************************************)
(* Event lifecycle and reconciliation engine of the horse-racing scrapers. *)
(*                                                                         *)
(*   1. History/1. SportingLife_RaceSpineCreation.py   (resolver)          *)
(*   2. Daily/1a. RaceSpineCreation_Results.py         (resolver, 22:00)   *)
(*   2. Daily/1b. RaceSpineCreation_Races.py           (resolver, 08:00)   *)
(*   1. History/2. ScrapeFromSpine.py                  (regular run)       *)
(*   2. Daily/2. ScrapeFromSpine.py                    (regular run)       *)
(*   1. History/3. Run PreRace on Abandoned.py         (remediation run)   *)
(*                                                                         *)
(* The BigQuery table RaceSpine is the append-only lifecycle store, the    *)
(* tables Scrape_PreRace / Scrape_PostRace are the field stores and the    *)
(* view RaceSpine_Latest is the current-state read.                        *)
(***************************************************************************)
EXTENDS Integers, Sequences, FiniteSets, TLC

(***************************************************************************)
(* Bounds of the model.                                                    *)
(***************************************************************************)
\* number of load jobs that may append to RaceSpine
MaxClock == 3
\* competitor blocks a detail page can show
MaxRunners == 1
\* value of the MAX_RACES environment variable
MAX_RACES == 2

(***************************************************************************)
(* Program constants.                                                      *)
(***************************************************************************)
max_retries == 3
LIMIT_ABANDONED == 50

\* a column that is absent from a loaded row (SQL NULL / pandas NaN)
NULL == "<NULL>"
BASE == "https://www.sportinglife.com"

(***************************************************************************)
(* Python / SQL string functions, computed on the strings themselves.      *)
(***************************************************************************)
Min(a, b) == IF a <= b THEN a ELSE b

Range(s) == {s[k] : k \in 1..Len(s)}

\* t in s
Contains(s, t) ==
    \E k \in 1..(Len(s) - Len(t) + 1) : SubSeq(s, k, k + Len(t) - 1) = t

\* STARTS_WITH(s, t)
STARTS_WITH(s, t) == Len(s) >= Len(t) /\ SubSeq(s, 1, Len(t)) = t

UPPERCASE == "ABCDEFGHIJKLMNOPQRSTUVWXYZ"
LOWERCASE == "abcdefghijklmnopqrstuvwxyz"

Lower1(c) ==
    IF \E k \in 1..26 : SubSeq(UPPERCASE, k, k) = c
    THEN LET k == CHOOSE k \in 1..26 : SubSeq(UPPERCASE, k, k) = c
         IN  SubSeq(LOWERCASE, k, k)
    ELSE c

RECURSIVE LOWER(_)
LOWER(s) ==
    IF Len(s) = 0 THEN ""
    ELSE Lower1(SubSeq(s, 1, 1)) \o LOWER(SubSeq(s, 2, Len(s)))

\* s.replace(old, new)
RECURSIVE Replace(_, _, _)
Replace(s, old, new) ==
    IF Len(s) < Len(old) THEN s
    ELSE IF SubSeq(s, 1, Len(old)) = old
         THEN new \o Replace(SubSeq(s, Len(old) + 1, Len(s)), old, new)
         ELSE SubSeq(s, 1, 1) \o Replace(SubSeq(s, 2, Len(s)), old, new)

\* s.strip("/")
RECURSIVE StripSlash(_)
StripSlash(s) ==
    IF Len(s) = 0 THEN s
    ELSE IF SubSeq(s, 1, 1) = "/" THEN StripSlash(SubSeq(s, 2, Len(s)))
    ELSE IF SubSeq(s, Len(s), Len(s)) = "/" THEN StripSlash(SubSeq(s, 1, Len(s) - 1))
    ELSE s

\* s.split("/")
RECURSIVE SplitFrom(_, _, _)
SplitFrom(s, k, cur) ==
    IF k > Len(s) THEN <<cur>>
    ELSE IF SubSeq(s, k, k) = "/" THEN <<cur>> \o SplitFrom(s, k + 1, "")
    ELSE SplitFrom(s, k + 1, cur \o SubSeq(s, k, k))

Split(s) == SplitFrom(s, 1, "")

(***************************************************************************)
(* The listings source: one page per date, a sequence of race blocks.      *)
(* href = NULL is a block without a link; abandoned is the race-level      *)
(* AbandonedIcon marker; reason is the text of the meeting header's        *)
(* HeaderDetails__Abandoned span ("" when the header has none).            *)
(***************************************************************************)
TODAY == "2025-11-01"

\* raises: something inside the try of the race loop throws for this block
Block(loc, tm, href, ab, reason) ==
    [Location |-> loc, Time |-> tm, href |-> href, abandoned |-> ab, reason |-> reason,
     raises |-> FALSE]

\* full results link, race run
bResult == Block("Ascot", "13:30", "/racing/results/2025-11-01/ascot/123/some-race", FALSE, "")
\* shortened racecards link of a race that was called off
bAbandoned ==
    Block("Ascot", "14:05", "/racing/racecards/2025-11-01/ascot/124/other-race", TRUE,
          "Abandoned: high winds")

Pages == {<<bResult>>, <<bAbandoned>>}

\* the links of one race, as the listings pages can show them
ResultsLink == "/racing/results/2025-11-01/ascot/123/some-race"
ShortLink == "/racing/racecards/2025-11-01/ascot/123/some-race"
FullLink == "/racing/racecards/2025-11-01/ascot/racecard/123/some-race"
\* a shortened link written without the /racing root
RootlessLink == "/racecards/2025-11-01/Ascot/123/Some-Race"
\* links that are not a race: a marker with too few segments, no marker, both
StubLink == "/racing/racecards/2025-11-01"
NewsLink == "/racing/news/some-story"
BothLink == "/racing/racecards/results/2025-11-01/ascot/123"

EventLinks == {ResultsLink, ShortLink, FullLink}
OtherLinks == {RootlessLink, StubLink, NewsLink, BothLink, NULL}

\* the cancellation marker of a race block and the reason of its meeting header
Markers ==
    {<<FALSE, "">>, <<TRUE, "">>, <<TRUE, "Abandoned: high winds">>}

\* the race blocks a listings page is made of
Blocks ==
    {Block("Ascot", "13:30", href, m[1], m[2]) : href \in EventLinks, m \in Markers}
    \cup {Block("Ascot", "14:05", href, FALSE, "") : href \in OtherLinks}
    \cup {Block("Ascot", "14:05", StubLink, TRUE, "")}
    \cup {[Block("Ascot", "14:40", FullLink, FALSE, "") EXCEPT !.raises = TRUE]}

\* race blocks on one listings page
MaxBlocks == 2

RECURSIVE SeqsUpTo(_, _)
SeqsUpTo(S, n) ==
    IF n = 0 THEN {<<>>}
    ELSE LET shorter == SeqsUpTo(S, n - 1)
         IN  shorter \cup {Append(p, b) : p \in {q \in shorter : Len(q) = n - 1}, b \in S}

Listings == SeqsUpTo(Blocks, MaxBlocks)

(***************************************************************************)
(* Identity Resolver.                                                      *)
(***************************************************************************)
\* the rebuild with the /racecard/ segment put after the race id
RepairAfterId(url) ==
    LET parts == Split(StripSlash(url))
    IN  IF Len(parts) >= 6
        THEN "/racing/racecards/" \o parts[3] \o "/" \o parts[4] \o "/"
                 \o parts[5] \o "/racecard/" \o parts[6]
        ELSE url

\* the f-string that rebuilds a link with the /racecard/ segment
Repair(url) ==
    LET parts == Split(StripSlash(url))
    IN  IF Len(parts) >= 6
        THEN "/racing/racecards/" \o parts[3] \o "/" \o parts[4] \o "/racecard/"
                 \o parts[5] \o "/" \o parts[6]
        ELSE url

\* both URLs of a link, as the historic and the 22:00 routine build them
BuildBothURLs(relative_url) ==
    IF Contains(relative_url, "/racecards/")
    THEN LET rel == IF ~Contains(relative_url, "/racecard/")
                    THEN Repair(relative_url) ELSE relative_url
         IN  [ok |-> TRUE,
              prerace_URL |-> BASE \o rel,
              postrace_URL |-> BASE \o Replace(rel, "/racecards/", "/results/")]
    ELSE IF Contains(relative_url, "/results/")
    THEN LET pre == Replace(relative_url, "/results/", "/racecards/")
         IN  [ok |-> TRUE,
              prerace_URL |-> BASE \o (IF ~Contains(pre, "/racecard/") THEN Repair(pre) ELSE pre),
              postrace_URL |-> BASE \o relative_url]
    ELSE [ok |-> FALSE, prerace_URL |-> NULL, postrace_URL |-> NULL]

\* the pre-race URL of a link, as the 08:00 routine builds it
BuildPreURL(relative_url) ==
    IF Contains(relative_url, "/racecards/")
    THEN [ok |-> TRUE, prerace_URL |-> BASE \o relative_url]
    ELSE IF Contains(relative_url, "/results/")
    THEN [ok |-> TRUE, prerace_URL |-> BASE \o Replace(relative_url, "/results/", "/racecards/")]
    ELSE [ok |-> FALSE, prerace_URL |-> NULL]

\* the abandoned branch without its postrace_url = ""
postrace_url_kept(abandoned, postrace_url) == postrace_url

\* postrace_url = "" for an abandoned race
postrace_url_stored(abandoned, postrace_url) == IF abandoned THEN "" ELSE postrace_url

SpineRow(date, b, pre, post, st) ==
    [Date |-> date, Location |-> b.Location, Time |-> b.Time,
     prerace_URL |-> pre, postrace_URL |-> post, Status |-> st]

\* 1. History/1.: the rows one race block contributes (none or one)
HistoryRaceRows(date, b, existing_urls, skip_prerace_urls) ==
    IF b.raises \/ b.href = NULL THEN <<>>
    ELSE LET u == BuildBothURLs(b.href)
             post == postrace_url_stored(b.abandoned, u.postrace_URL)
         IN  IF ~u.ok THEN <<>>
             ELSE IF u.prerace_URL \in skip_prerace_urls THEN <<>>
             ELSE IF b.abandoned
                  THEN <<SpineRow(date, b, u.prerace_URL, post,
                                  IF b.reason # "" THEN b.reason ELSE "Abandoned")>>
                  ELSE <<SpineRow(date, b, u.prerace_URL, post,
                                  IF u.prerace_URL \in existing_urls
                                  THEN "Complete" ELSE "Pending")>>

\* 2. Daily/1a.: the rows one race block contributes
ResultsRaceRows(date, b) ==
    IF b.raises \/ b.href = NULL THEN <<>>
    ELSE LET u == BuildBothURLs(b.href)
             post == postrace_url_stored(b.abandoned, u.postrace_URL)
         IN  IF ~u.ok THEN <<>>
             ELSE <<SpineRow(date, b, u.prerace_URL, post,
                             IF b.abandoned THEN "Abandoned" ELSE "Pending")>>

\* 2. Daily/1b.: the rows one race block contributes
RacesRaceRows(date, b) ==
    IF b.raises \/ b.href = NULL THEN <<>>
    ELSE LET u == BuildPreURL(b.href)
         IN  IF ~u.ok THEN <<>>
             ELSE <<SpineRow(date, b, u.prerace_URL, "",
                             IF b.reason # "" THEN b.reason ELSE "Pending")>>

RECURSIVE HistoryPageRows(_, _, _, _)
HistoryPageRows(date, page, existing_urls, skip_prerace_urls) ==
    IF page = <<>> THEN <<>>
    ELSE HistoryRaceRows(date, Head(page), existing_urls, skip_prerace_urls)
           \o HistoryPageRows(date, Tail(page), existing_urls, skip_prerace_urls)

RECURSIVE ResultsPageRows(_, _)
ResultsPageRows(date, page) ==
    IF page = <<>> THEN <<>>
    ELSE ResultsRaceRows(date, Head(page)) \o ResultsPageRows(date, Tail(page))

RECURSIVE RacesPageRows(_, _)
RacesPageRows(date, page) ==
    IF page = <<>> THEN <<>>
    ELSE RacesRaceRows(date, Head(page)) \o RacesPageRows(date, Tail(page))

\* URLs a caller of the historic routine may pass as already scraped / to skip
KnownURLs == {BuildBothURLs(bResult.href).prerace_URL}
ExistingChoices == {{}, KnownURLs}
SkipChoices == {{}, KnownURLs}

\* the three routines
Routines == {"History", "Results", "Races"}

\* the rows each routine builds from each race block
HistoryRows ==
    [b \in Blocks, existing_urls \in ExistingChoices, skip_prerace_urls \in SkipChoices |->
        HistoryRaceRows(TODAY, b, existing_urls, skip_prerace_urls)]
ResultsRows == [b \in Blocks |-> ResultsRaceRows(TODAY, b)]
RacesRows == [b \in Blocks |-> RacesRaceRows(TODAY, b)]

\* the loop body of the routine that was called, applied to one race block
RaceRows(c, b) ==
    CASE c.routine = "History" -> HistoryRows[b, c.existing_urls, c.skip_prerace_urls]
      [] c.routine = "Results" -> ResultsRows[b]
      [] c.routine = "Races" -> RacesRows[b]

\* a loop that an exception in one race block ends
AfterRaceAbort(page, k) == IF page[k].raises THEN Len(page) ELSE k

\* try/except inside the for loop: after block k, however it ended, the loop
\* has come as far as k
AfterRace(page, k) == k

(***************************************************************************)
(* The system of record.                                                   *)
(***************************************************************************)
SpineColumns == {"Date", "Location", "Time", "prerace_URL", "postrace_URL", "Status"}

\* load_table_from_dataframe with WRITE_APPEND: a column the frame lacks is NULL
TableRow(row, ts) ==
    [c \in SpineColumns \cup {"load_timestamp"} |->
        IF c = "load_timestamp" THEN ts
        ELSE IF c \in DOMAIN row THEN row[c] ELSE NULL]

\* the load job with write_disposition WRITE_TRUNCATE
LoadTableTruncate(table, rows, ts) == [k \in 1..Len(rows) |-> TableRow(rows[k], ts)]

LoadTable(table, rows, ts) == table \o [k \in 1..Len(rows) |-> TableRow(rows[k], ts)]

\* partition by prerace_URL, rank by load_timestamp descending, keep rank 1;
\* rows of one load job share their timestamp, so rank 1 may be any of them
Identities(spine) == {spine[j].prerace_URL : j \in 1..Len(spine)}

\* the ranking with ORDER BY load_timestamp ASC
Rank1Oldest(spine, id) ==
    {j \in 1..Len(spine) :
        /\ spine[j].prerace_URL = id
        /\ \A k \in 1..Len(spine) :
              spine[k].prerace_URL = id => spine[k].load_timestamp >= spine[j].load_timestamp}

Rank1(spine, id) ==
    {j \in 1..Len(spine) :
        /\ spine[j].prerace_URL = id
        /\ \A k \in 1..Len(spine) :
              spine[k].prerace_URL = id => spine[k].load_timestamp <= spine[j].load_timestamp}

RECURSIVE Rank1Choices(_, _)
Rank1Choices(spine, ids) ==
    IF ids = {} THEN {<<>>}
    ELSE LET id == CHOOSE x \in ids : TRUE
         IN  {(id :> j) @@ f : j \in Rank1(spine, id), f \in Rank1Choices(spine, ids \ {id})}

\* the views the ranking can produce: one rank-1 row number per identity
RaceSpine_Latest(spine) == Rank1Choices(spine, Identities(spine))

(***************************************************************************)
(* Selection queries of the orchestrators.                                 *)
(***************************************************************************)
Scripts == {"History", "Daily", "Abandoned"}
Regular == {"History", "Daily"}

\* the off times of a long card: "15:01", "15:02", ...
OffTime(k) == "15:0" \o SubSeq("0123456789", k + 1, k + 1)

\* position of a string in the collation order of the strings it is compared with
Collate(s) ==
    CASE s = "13:30" -> 1
      [] s = "14:05" -> 2
      [] \E k \in 1..9 : s = OffTime(k) -> 2 + (CHOOSE k \in 1..9 : s = OffTime(k))
      [] OTHER -> 0

\* the predicate with In Progress made eligible as well
PendingOrInProgressWhere(row) == row.Status \in {"Pending", "In Progress"}

\* WHERE Status = 'Pending'
PendingWhere(row) == row.Status = "Pending"

\* WHERE LOWER(Status) LIKE '%abandoned%' AND NOT STARTS_WITH(...) AND NOT STARTS_WITH(...)
AbandonedWhere(row) ==
    /\ Contains(LOWER(row.Status), "abandoned")
    /\ ~STARTS_WITH(row.Status, "PreRace Completed")
    /\ ~STARTS_WITH(row.Status, "Prerace Completed")

Where(script, row) == IF script = "Abandoned" THEN AbandonedWhere(row) ELSE PendingWhere(row)

\* ORDER BY date desc, Location, Time  /  ORDER BY Location, Time
OrderedBefore(script, a, b) ==
    LET da == IF script = "Daily" THEN 0 ELSE Collate(a.Date)
        db == IF script = "Daily" THEN 0 ELSE Collate(b.Date)
    IN  \/ da > db
        \/ da = db /\ Collate(a.Location) < Collate(b.Location)
        \/ da = db /\ Collate(a.Location) = Collate(b.Location)
                   /\ Collate(a.Time) < Collate(b.Time)

Limit(script) == IF script = "Abandoned" THEN LIMIT_ABANDONED ELSE MAX_RACES

SelectColumns(script) ==
    IF script = "Abandoned" THEN SpineColumns \ {"postrace_URL"} ELSE SpineColumns

\* the row numbers of RaceSpine a query may return, in result order
QueryResults(spine, script) ==
    UNION {
        LET hits == {f[id] : id \in DOMAIN f} \cap {j \in 1..Len(spine) : Where(script, spine[j])}
            n == Min(Limit(script), Cardinality(hits))
        IN  {s \in [1..n -> hits] :
                /\ \A a, b \in 1..n : a < b =>
                      s[a] # s[b] /\ ~OrderedBefore(script, spine[s[b]], spine[s[a]])
                /\ \A j \in hits \ Range(s) : \A k \in 1..n :
                      ~OrderedBefore(script, spine[j], spine[s[k]])}
        : f \in RaceSpine_Latest(spine)}

DataFrame(spine, script, s) ==
    [k \in 1..Len(s) |-> [c \in SelectColumns(script) |-> spine[s[k]][c]]]

(***************************************************************************)
(* State.                                                                  *)
(***************************************************************************)
\* the schedule starts one run at a time; two runs overlap when a run outlasts
\* the interval of its trigger
OneRun == {"r1"}
TwoRuns == {"r1", "r2"}

VARIABLES
    RaceSpine,        \* the lifecycle store
    Scrape_PreRace,   \* field store of the before-pass
    Scrape_PostRace,  \* field store of the after-pass
    now,              \* the clock read by datetime.utcnow() of a spine load job
    pc,               \* position of each orchestrator process
    script,           \* which script the process runs
    df_races,         \* the batch returned by the selection query
    src_rows,         \* the RaceSpine row numbers the batch was read from
    i,                \* number of batch rows the loop has taken
    driver,           \* the browser session: "none", "open", "closed"
    data,             \* rows collected by the pass in progress
    fetches,          \* driver.get calls of the passes of the current event
    timeouts,         \* how many of them raised TimeoutException
    prerace_df, postrace_df, status,
    prerace_data, postrace_data, updated_rows,
    exc,              \* the exception that ended the process, "" if none
    call,             \* the resolver routine being stepped through, its arguments
    soup,             \* the race blocks of the listings page it fetched
    pos,              \* how many of them the race loop has been through
    url_rows,         \* the rows it has built
    RaceStatus,       \* what get_single_race of the race viewer returned last
    start_date, end_date, current_date,   \* the range being iterated, as days
    dfs,              \* the frames get_races_for_date_range has collected
    requested         \* the get_race_urls calls it has made, and how each ended

stores == <<RaceSpine, Scrape_PreRace, Scrape_PostRace, now>>
event == <<data, fetches, timeouts, prerace_df, postrace_df, status>>
batch == <<script, df_races, src_rows>>
lists == <<prerace_data, postrace_data, updated_rows>>
range == <<start_date, end_date, current_date, dfs, requested>>
others == <<call, soup, pos, url_rows, RaceStatus, range>>
vars == <<stores, pc, batch, i, driver, event, lists, exc, others>>

\* the orchestrator processes of the schedule
Runs == DOMAIN pc

NoCall ==
    [routine |-> "none", existing_urls |-> {}, skip_prerace_urls |-> {}, written |-> FALSE]

NoFetch == [pre |-> 0, post |-> 0]

NoRead == [url |-> "", RaceStatus |-> NULL]

\* none of the processes P has started
NotStarted(P) ==
    /\ Scrape_PreRace = <<>>
    /\ Scrape_PostRace = <<>>
    /\ pc = [r \in P |-> "idle"]
    /\ script = [r \in P |-> "none"]
    /\ df_races = [r \in P |-> <<>>]
    /\ src_rows = [r \in P |-> <<>>]
    /\ i = [r \in P |-> 0]
    /\ driver = [r \in P |-> "none"]
    /\ data = [r \in P |-> <<>>]
    /\ fetches = [r \in P |-> NoFetch]
    /\ timeouts = [r \in P |-> NoFetch]
    /\ prerace_df = [r \in P |-> <<>>]
    /\ postrace_df = [r \in P |-> <<>>]
    /\ status = [r \in P |-> "Pending"]
    /\ prerace_data = [r \in P |-> <<>>]
    /\ postrace_data = [r \in P |-> <<>>]
    /\ updated_rows = [r \in P |-> <<>>]
    /\ exc = [r \in P |-> ""]
    /\ call = NoCall
    /\ soup = <<>>
    /\ pos = 0
    /\ url_rows = <<>>
    /\ RaceStatus = NoRead
    /\ start_date = 0
    /\ end_date = 0
    /\ current_date = 0
    /\ dfs = <<>>
    /\ requested = <<>>

\* no process has started
NothingRuns == NotStarted(OneRun)

Init ==
    /\ RaceSpine = <<>>
    /\ now = 0
    /\ NothingRuns

(***************************************************************************)
(* Identity Resolver runs: parse one listings page, append its rows.       *)
(***************************************************************************)
\* processes past setup_driver(): each has one spine load job ahead of it, and
\* the clock bound keeps one tick for it
Active == {r \in Runs : pc[r] \notin {"idle", "loaded", "done", "crashed"}}

\* write_spine_to_bq: an empty frame is not uploaded, any other is appended
\* with one load_timestamp
write_spine_to_bq(spine, df, ts) == IF df = <<>> THEN spine ELSE LoadTable(spine, df, ts)

\* the frames the three routines build from the pages of the listings source
HistoryFrames ==
    [page \in Pages, existing_urls \in ExistingChoices, skip_prerace_urls \in SkipChoices |->
        HistoryPageRows(TODAY, page, existing_urls, skip_prerace_urls)]
ResultsFrames == [page \in Pages |-> ResultsPageRows(TODAY, page)]
RacesFrames == [page \in Pages |-> RacesPageRows(TODAY, page)]

\* 1. History/1.
SpineCreation_History ==
    /\ now + Cardinality(Active) < MaxClock
    /\ \E page \in Pages, existing_urls \in ExistingChoices, skip_prerace_urls \in SkipChoices :
          LET df == HistoryFrames[page, existing_urls, skip_prerace_urls]
          IN  /\ RaceSpine' = write_spine_to_bq(RaceSpine, df, now + 1)
              /\ now' = IF df = <<>> THEN now ELSE now + 1
    /\ UNCHANGED <<others, Scrape_PreRace, Scrape_PostRace, pc, batch, i, driver, event, lists, exc>>

\* 2. Daily/1a.
SpineCreation_Results ==
    /\ now + Cardinality(Active) < MaxClock
    /\ \E page \in Pages :
          LET df == ResultsFrames[page]
          IN  /\ RaceSpine' = write_spine_to_bq(RaceSpine, df, now + 1)
              /\ now' = IF df = <<>> THEN now ELSE now + 1
    /\ UNCHANGED <<others, Scrape_PreRace, Scrape_PostRace, pc, batch, i, driver, event, lists, exc>>

\* 2. Daily/1b.
SpineCreation_Races ==
    /\ now + Cardinality(Active) < MaxClock
    /\ \E page \in Pages :
          LET df == RacesFrames[page]
          IN  /\ RaceSpine' = write_spine_to_bq(RaceSpine, df, now + 1)
              /\ now' = IF df = <<>> THEN now ELSE now + 1
    /\ UNCHANGED <<others, Scrape_PreRace, Scrape_PostRace, pc, batch, i, driver, event, lists, exc>>

(***************************************************************************)
(* Collection Orchestrator: main() of the two regular scripts and of the   *)
(* remediation script, one action per step.                                *)
(***************************************************************************)
\* the test without url.strip()
notna(url) == url # NULL

\* pd.notna(url) and url.strip()
HasURL(url) == url # NULL /\ url # ""

\* what one page load can give: a timeout, a page without a competitor block,
\* or a page with MaxRunners of them
PageOutcomes ==
    {[timeout |-> TRUE, n |-> 0]} \cup {[timeout |-> FALSE, n |-> n] : n \in {0, MaxRunners}}

HorseRows(url, n) == [k \in 1..n |-> [HorseNumber |-> k, SourceURL |-> url]]

\* a loop without the break after a page that loaded
RetryAlways(out) == TRUE

\* a loop that also goes round again when the page showed no competitor
RetryAfterEmpty(out) == out.timeout \/ out.n = 0

\* except TimeoutException: sleep and go round the retry loop again
RetryAfter(out) == out.timeout

\* the aggregation with "or" where the code has "and"
AggregateStatusEither(pre_empty, post_empty) ==
    IF ~pre_empty \/ ~post_empty THEN "Complete" ELSE "Pending"

\* status of an event from the emptiness of its two frames
AggregateStatus(pre_empty, post_empty) ==
    IF ~pre_empty /\ ~post_empty THEN "Complete"
    ELSE IF ~pre_empty \/ ~post_empty THEN "In Progress"
    ELSE "Pending"

\* the rewrite without the prior status text
new_status_fixed(prev_status) == "PreRace Completed"

\* f"PreRace Completed - {prev_status}"
new_status(prev_status) == "PreRace Completed - " \o prev_status

row(r) == df_races[r][i[r]]

\* the end of one turn of the loop: its frames, status and retry counters are
\* not read again
EndIteration(r) ==
    /\ prerace_df' = [prerace_df EXCEPT ![r] = <<>>]
    /\ postrace_df' = [postrace_df EXCEPT ![r] = <<>>]
    /\ status' = [status EXCEPT ![r] = "Pending"]
    /\ fetches' = [fetches EXCEPT ![r] = NoFetch]
    /\ timeouts' = [timeouts EXCEPT ![r] = NoFetch]

\* a frame that always counts as holding rows
never_empty(df) == FALSE

\* df.empty
empty(df) == df = <<>>

\* df_races = load_...(): the selection query
LoadRaces(r) ==
    /\ pc[r] = "idle"
    /\ \E sc \in Scripts : \E s \in QueryResults(RaceSpine, sc) :
          /\ script' = [script EXCEPT ![r] = sc]
          /\ df_races' = [df_races EXCEPT ![r] = DataFrame(RaceSpine, sc, s)]
          /\ src_rows' = [src_rows EXCEPT ![r] = s]
    /\ pc' = [pc EXCEPT ![r] = "loaded"]
    /\ UNCHANGED <<others, stores, i, driver, event, lists, exc>>

\* if df_races.empty: return
ReturnEmpty(r) ==
    /\ pc[r] = "loaded"
    /\ empty(df_races[r])
    /\ pc' = [pc EXCEPT ![r] = "done"]
    /\ UNCHANGED <<others, stores, batch, i, driver, event, lists, exc>>

\* driver = setup_driver(); the three lists start empty
SetupDriver(r) ==
    /\ pc[r] = "loaded"
    /\ ~empty(df_races[r])
    /\ now + Cardinality(Active) < MaxClock
    /\ driver' = [driver EXCEPT ![r] = "open"]
    /\ prerace_data' = [prerace_data EXCEPT ![r] = <<>>]
    /\ postrace_data' = [postrace_data EXCEPT ![r] = <<>>]
    /\ updated_rows' = [updated_rows EXCEPT ![r] = <<>>]
    /\ i' = [i EXCEPT ![r] = 0]
    /\ pc' = [pc EXCEPT ![r] = "loop"]
    /\ UNCHANGED <<others, stores, batch, event, exc>>

\* for i, row in df_races.iterrows(): the next row, its frames empty
NextRace(r) ==
    /\ pc[r] = "loop"
    /\ i[r] < Len(df_races[r])
    /\ i' = [i EXCEPT ![r] = i[r] + 1]
    /\ status' = [status EXCEPT ![r] = "Pending"]
    /\ prerace_df' = [prerace_df EXCEPT ![r] = <<>>]
    /\ postrace_df' = [postrace_df EXCEPT ![r] = <<>>]
    /\ data' = [data EXCEPT ![r] = <<>>]
    /\ fetches' = [fetches EXCEPT ![r] = NoFetch]
    /\ timeouts' = [timeouts EXCEPT ![r] = NoFetch]
    /\ pc' = [pc EXCEPT ![r] = "pre"]
    /\ UNCHANGED <<others, stores, batch, driver, lists, exc>>

\* the regular scripts skip the before-pass of a row without a pre-race URL
SkipPrerace(r) ==
    /\ pc[r] = "pre"
    /\ script[r] \in Regular
    /\ ~HasURL(row(r).prerace_URL)
    /\ pc' = [pc EXCEPT ![r] = "post"]
    /\ UNCHANGED <<others, stores, batch, i, driver, event, lists, exc>>

\* one round of the retry loop of scrape_prerace; the last round, or the first
\* that loads, returns the frame and main() keeps it when it has rows
ScrapePrerace(r) ==
    /\ pc[r] = "pre"
    /\ script[r] = "Abandoned" \/ HasURL(row(r).prerace_URL)
    /\ fetches[r].pre < max_retries
    /\ \E out \in PageOutcomes :
          LET n == fetches[r].pre + 1
              d == IF out.timeout THEN data[r]
                   ELSE data[r] \o HorseRows(row(r).prerace_URL, out.n)
          IN  /\ fetches' = [fetches EXCEPT ![r].pre = n]
              /\ timeouts' = [timeouts EXCEPT ![r].pre = @ + (IF out.timeout THEN 1 ELSE 0)]
              /\ IF RetryAfter(out) /\ n < max_retries
                 THEN /\ data' = [data EXCEPT ![r] = d]
                      /\ UNCHANGED <<pc, prerace_df, prerace_data>>
                 ELSE /\ data' = [data EXCEPT ![r] = <<>>]
                      /\ prerace_df' = [prerace_df EXCEPT ![r] = d]
                      /\ prerace_data' = [prerace_data EXCEPT ![r] =
                                             IF d # <<>> THEN Append(@, d) ELSE @]
                      /\ pc' = [pc EXCEPT ![r] =
                                   IF script[r] = "Abandoned" THEN "row" ELSE "post"]
    /\ UNCHANGED <<others, stores, batch, i, driver, postrace_df, status,
                   postrace_data, updated_rows, exc>>

\* a blank or missing post-race URL: no after-pass
SkipPostrace(r) ==
    /\ pc[r] = "post"
    /\ ~HasURL(row(r).postrace_URL)
    /\ pc' = [pc EXCEPT ![r] = "agg"]
    /\ UNCHANGED <<others, stores, batch, i, driver, event, lists, exc>>

\* 1. History/2.: scrape_results with its retry loop
ScrapeResultsHistory(r) ==
    /\ pc[r] = "post"
    /\ script[r] = "History"
    /\ HasURL(row(r).postrace_URL)
    /\ fetches[r].post < max_retries
    /\ \E out \in PageOutcomes :
          LET n == fetches[r].post + 1
              d == IF out.timeout THEN data[r]
                   ELSE data[r] \o HorseRows(row(r).postrace_URL, out.n)
          IN  /\ fetches' = [fetches EXCEPT ![r].post = n]
              /\ timeouts' = [timeouts EXCEPT ![r].post = @ + (IF out.timeout THEN 1 ELSE 0)]
              /\ IF RetryAfter(out) /\ n < max_retries
                 THEN /\ data' = [data EXCEPT ![r] = d]
                      /\ UNCHANGED <<pc, postrace_df, postrace_data>>
                 ELSE /\ data' = [data EXCEPT ![r] = <<>>]
                      /\ postrace_df' = [postrace_df EXCEPT ![r] = d]
                      /\ postrace_data' = [postrace_data EXCEPT ![r] =
                                              IF d # <<>> THEN Append(@, d) ELSE @]
                      /\ pc' = [pc EXCEPT ![r] = "agg"]
    /\ UNCHANGED <<others, stores, batch, i, driver, prerace_df, status,
                   prerace_data, updated_rows, exc>>

\* 2. Daily/2.: scrape_results loads the page once, outside any try
ScrapeResultsDaily(r) ==
    /\ pc[r] = "post"
    /\ script[r] = "Daily"
    /\ HasURL(row(r).postrace_URL)
    /\ \E out \in PageOutcomes :
          /\ fetches' = [fetches EXCEPT ![r].post = @ + 1]
          /\ timeouts' = [timeouts EXCEPT ![r].post = @ + (IF out.timeout THEN 1 ELSE 0)]
          /\ IF out.timeout
             THEN /\ exc' = [exc EXCEPT ![r] = "TimeoutException"]
                  /\ pc' = [pc EXCEPT ![r] = "crashed"]
                  /\ UNCHANGED <<postrace_df, postrace_data>>
             ELSE LET d == HorseRows(row(r).postrace_URL, out.n)
                  IN  /\ postrace_df' = [postrace_df EXCEPT ![r] = d]
                      /\ postrace_data' = [postrace_data EXCEPT ![r] =
                                              IF d # <<>> THEN Append(@, d) ELSE @]
                      /\ pc' = [pc EXCEPT ![r] = "agg"]
                      /\ UNCHANGED exc
    /\ UNCHANGED <<others, stores, batch, i, driver, data, prerace_df, status,
                   prerace_data, updated_rows>>

\* Complete / In Progress / Pending from the two frames; both passes have
\* returned, their retry counters are gone
Aggregate(r) ==
    /\ pc[r] = "agg"
    /\ status' = [status EXCEPT ![r] =
                     AggregateStatus(prerace_df[r] = <<>>, postrace_df[r] = <<>>)]
    /\ fetches' = [fetches EXCEPT ![r] = NoFetch]
    /\ timeouts' = [timeouts EXCEPT ![r] = NoFetch]
    /\ pc' = [pc EXCEPT ![r] = "row"]
    /\ UNCHANGED <<others, stores, batch, i, driver, data, prerace_df, postrace_df, lists, exc>>

\* 1. History/2.: the dict of updated_rows.append reads the name prerace_URL,
\* which main() never binds
AppendRowHistory(r) ==
    /\ pc[r] = "row"
    /\ script[r] = "History"
    /\ exc' = [exc EXCEPT ![r] = "NameError"]
    /\ pc' = [pc EXCEPT ![r] = "crashed"]
    /\ UNCHANGED <<others, stores, batch, i, driver, event, lists>>

\* 2. Daily/2.: updated_rows.append of Date, Location, Time, Status
AppendRowDaily(r) ==
    /\ pc[r] = "row"
    /\ script[r] = "Daily"
    /\ updated_rows' = [updated_rows EXCEPT ![r] =
          Append(@, [Date |-> row(r).Date, Location |-> row(r).Location,
                     Time |-> row(r).Time, Status |-> status[r]])]
    /\ EndIteration(r)
    /\ pc' = [pc EXCEPT ![r] = "loop"]
    /\ UNCHANGED <<others, stores, batch, i, driver, data, prerace_data, postrace_data, exc>>

\* 1. History/3.: status_updates.append; row.get("postrace_URL", "")
AppendRowAbandoned(r) ==
    /\ pc[r] = "row"
    /\ script[r] = "Abandoned"
    /\ updated_rows' = [updated_rows EXCEPT ![r] =
          Append(@, [Date |-> row(r).Date, Location |-> row(r).Location,
                     Time |-> row(r).Time, prerace_URL |-> row(r).prerace_URL,
                     postrace_URL |-> IF "postrace_URL" \in DOMAIN row(r)
                                      THEN row(r).postrace_URL ELSE "",
                     Status |-> new_status(row(r).Status)])]
    /\ EndIteration(r)
    /\ pc' = [pc EXCEPT ![r] = "loop"]
    /\ UNCHANGED <<others, stores, batch, i, driver, data, prerace_data, postrace_data, exc>>

\* driver.quit() after the loop
DriverQuit(r) ==
    /\ pc[r] = "loop"
    /\ i[r] = Len(df_races[r])
    /\ driver' = [driver EXCEPT ![r] = "closed"]
    /\ pc' = [pc EXCEPT ![r] = "upload_pre"]
    /\ UNCHANGED <<others, stores, batch, i, event, lists, exc>>

RECURSIVE Concat(_)
Concat(frames) == IF frames = <<>> THEN <<>> ELSE Head(frames) \o Concat(Tail(frames))

\* rows of a field-store load job; only 1. History stamps load_timestamp
FieldRows(df, ts) ==
    [k \in 1..Len(df) |-> [HorseNumber |-> df[k].HorseNumber,
                           SourceURL |-> df[k].SourceURL, load_timestamp |-> ts]]

\* the load job with write_disposition WRITE_TRUNCATE
upload_truncating(table, df, ts) == IF df = <<>> THEN table ELSE FieldRows(df, ts)

\* the load job left out
upload_skipped(table, df, ts) == table

\* upload_to_bigquery / upload_prerace: an empty frame is skipped, any other is
\* appended by a WRITE_APPEND load job
upload_to_bigquery(table, df, ts) == IF df = <<>> THEN table ELSE table \o FieldRows(df, ts)

\* upload_to_bigquery(pd.concat(prerace_data), "PreRace") / upload_prerace
UploadPreRace(r) ==
    /\ pc[r] = "upload_pre"
    /\ Scrape_PreRace' =
          IF prerace_data[r] # <<>>
          THEN upload_to_bigquery(Scrape_PreRace, Concat(prerace_data[r]),
                                  IF script[r] = "Daily" THEN -1 ELSE now)
          ELSE Scrape_PreRace
    /\ pc' = [pc EXCEPT ![r] = IF script[r] = "Abandoned" THEN "append" ELSE "upload_post"]
    /\ UNCHANGED <<others, RaceSpine, Scrape_PostRace, now, batch, i, driver, event, lists, exc>>

\* upload_to_bigquery(pd.concat(postrace_data), "PostRace")
UploadPostRace(r) ==
    /\ pc[r] = "upload_post"
    /\ Scrape_PostRace' =
          IF postrace_data[r] # <<>>
          THEN upload_to_bigquery(Scrape_PostRace, Concat(postrace_data[r]),
                                  IF script[r] = "Daily" THEN -1 ELSE now)
          ELSE Scrape_PostRace
    /\ pc' = [pc EXCEPT ![r] = "append"]
    /\ UNCHANGED <<others, RaceSpine, Scrape_PreRace, now, batch, i, driver, event, lists, exc>>

\* the load job of a field store raises from .result(): nothing is written and
\* main() ends with the exception, before append_status_updates; the time the
\* job took has passed
UploadFails(r) ==
    /\ \/ pc[r] = "upload_pre" /\ prerace_data[r] # <<>>
       \/ pc[r] = "upload_post" /\ postrace_data[r] # <<>>
    /\ now' = now + 1
    /\ exc' = [exc EXCEPT ![r] = "GoogleAPIError"]
    /\ pc' = [pc EXCEPT ![r] = "crashed"]
    /\ UNCHANGED <<others, RaceSpine, Scrape_PreRace, Scrape_PostRace, batch, i, driver,
                   event, lists>>

\* append_status_updates(updated_rows)
append_status_updates(r) ==
    /\ pc[r] = "append"
    /\ IF updated_rows[r] = <<>>
       THEN UNCHANGED <<RaceSpine, now>>
       ELSE /\ RaceSpine' = LoadTable(RaceSpine, updated_rows[r], now + 1)
            /\ now' = now + 1
    /\ pc' = [pc EXCEPT ![r] = "done"]
    /\ UNCHANGED <<others, Scrape_PreRace, Scrape_PostRace, batch, i, driver, event, lists, exc>>

\* the process ends; the next scheduled run starts from scratch
Exit(r) ==
    /\ pc[r] \in {"done", "crashed"}
    /\ pc' = [pc EXCEPT ![r] = "idle"]
    /\ script' = [script EXCEPT ![r] = "none"]
    /\ df_races' = [df_races EXCEPT ![r] = <<>>]
    /\ src_rows' = [src_rows EXCEPT ![r] = <<>>]
    /\ i' = [i EXCEPT ![r] = 0]
    /\ driver' = [driver EXCEPT ![r] = "none"]
    /\ data' = [data EXCEPT ![r] = <<>>]
    /\ fetches' = [fetches EXCEPT ![r] = NoFetch]
    /\ timeouts' = [timeouts EXCEPT ![r] = NoFetch]
    /\ prerace_df' = [prerace_df EXCEPT ![r] = <<>>]
    /\ postrace_df' = [postrace_df EXCEPT ![r] = <<>>]
    /\ status' = [status EXCEPT ![r] = "Pending"]
    /\ prerace_data' = [prerace_data EXCEPT ![r] = <<>>]
    /\ postrace_data' = [postrace_data EXCEPT ![r] = <<>>]
    /\ updated_rows' = [updated_rows EXCEPT ![r] = <<>>]
    /\ exc' = [exc EXCEPT ![r] = ""]
    /\ UNCHANGED <<others, stores>>

Next ==
    \/ SpineCreation_History
    \/ SpineCreation_Results
    \/ SpineCreation_Races
    \/ \E r \in Runs : LoadRaces(r)
    \/ \E r \in Runs : ReturnEmpty(r)
    \/ \E r \in Runs : SetupDriver(r)
    \/ \E r \in Runs : NextRace(r)
    \/ \E r \in Runs : SkipPrerace(r)
    \/ \E r \in Runs : ScrapePrerace(r)
    \/ \E r \in Runs : SkipPostrace(r)
    \/ \E r \in Runs : ScrapeResultsHistory(r)
    \/ \E r \in Runs : ScrapeResultsDaily(r)
    \/ \E r \in Runs : Aggregate(r)
    \/ \E r \in Runs : AppendRowHistory(r)
    \/ \E r \in Runs : AppendRowDaily(r)
    \/ \E r \in Runs : AppendRowAbandoned(r)
    \/ \E r \in Runs : DriverQuit(r)
    \/ \E r \in Runs : UploadPreRace(r)
    \/ \E r \in Runs : UploadPostRace(r)
    \/ \E r \in Runs : UploadFails(r)
    \/ \E r \in Runs : append_status_updates(r)
    \/ \E r \in Runs : Exit(r)

Spec == Init /\ [][Next]_vars

(***************************************************************************)
(* One run of a resolver script, stepped through race block by race block: *)
(* the routine fetches a listings page, its loop builds url_rows, and      *)
(* write_spine_to_bq appends the frame.                                    *)
(***************************************************************************)
orchestrator == <<pc, batch, i, driver, event, lists, exc>>

\* 1. History/1.: get_race_urls(results_date, existing_urls, skip_prerace_urls);
\* requests.get + BeautifulSoup give the page, no row is built yet; a failed
\* fetch returns the empty frame, as a page without race blocks does
get_race_urls_History ==
    /\ call.routine = "none"
    /\ \E page \in Listings, existing_urls \in ExistingChoices,
          skip_prerace_urls \in SkipChoices :
          /\ call' = [routine |-> "History", existing_urls |-> existing_urls,
                      skip_prerace_urls |-> skip_prerace_urls, written |-> FALSE]
          /\ soup' = page
    /\ pos' = 0
    /\ url_rows' = <<>>
    /\ UNCHANGED <<stores, orchestrator, RaceStatus, range>>

\* 2. Daily/1a.: get_race_urls(results_date)
get_race_urls_Results ==
    /\ call.routine = "none"
    /\ call' = [NoCall EXCEPT !.routine = "Results"]
    /\ \E page \in Listings : soup' = page
    /\ pos' = 0
    /\ url_rows' = <<>>
    /\ UNCHANGED <<stores, orchestrator, RaceStatus, range>>

\* 2. Daily/1b.: get_todays_races()
get_todays_races ==
    /\ call.routine = "none"
    /\ call' = [NoCall EXCEPT !.routine = "Races"]
    /\ \E page \in Listings : soup' = page
    /\ pos' = 0
    /\ url_rows' = <<>>
    /\ UNCHANGED <<stores, orchestrator, RaceStatus, range>>

\* one turn of "for race in race_containers", the try and its except included
ParseRace ==
    /\ call.routine \in Routines
    /\ pos < Len(soup)
    /\ url_rows' = url_rows \o RaceRows(call, soup[pos + 1])
    /\ pos' = AfterRace(soup, pos + 1)
    /\ UNCHANGED <<call, soup, stores, orchestrator, RaceStatus, range>>

\* __main__: write_spine_to_bq(df) once the routine has returned
WriteSpine ==
    /\ call.routine \in Routines
    /\ ~call.written
    /\ pos = Len(soup)
    /\ RaceSpine' = write_spine_to_bq(RaceSpine, url_rows, now + 1)
    /\ now' = IF url_rows = <<>> THEN now ELSE now + 1
    /\ call' = [call EXCEPT !.written = TRUE]
    /\ UNCHANGED <<soup, pos, url_rows, Scrape_PreRace, Scrape_PostRace, orchestrator,
                   RaceStatus, range>>

NextResolver ==
    \/ get_race_urls_History
    \/ get_race_urls_Results
    \/ get_todays_races
    \/ ParseRace
    \/ WriteSpine

ResolverSpec == Init /\ [][NextResolver]_vars

(***************************************************************************)
(* The race viewer reading the current state of a race.  The load jobs of  *)
(* separate processes stamp their rows before they send them, so the rows  *)
(* of the table come in any order of load_timestamp.                       *)
(***************************************************************************)
\* rows a table can hold
MaxRecords == 3

RaceX == BASE \o FullLink
RaceY == BASE \o "/racing/racecards/2025-11-01/ascot/racecard/124/other-race"

Record(id, st, ts) ==
    TableRow([Date |-> TODAY, Location |-> "Ascot", Time |-> "13:30",
              prerace_URL |-> id, postrace_URL |-> "", Status |-> st], ts)

Records ==
    {Record(RaceX, st, ts) : st \in {"Pending", "In Progress", "Complete"}, ts \in 1..MaxClock}
    \cup {Record(RaceY, "Pending", 1)}

Histories == SeqsUpTo(Records, MaxRecords)

InitViewer ==
    /\ RaceSpine \in Histories
    /\ now = MaxClock
    /\ NothingRuns

\* the rows of RaceSpine_Latest, for one ranking the view can come out with
ViewRows(spine, f) ==
    LET V == {f[id] : id \in DOMAIN f}
        RECURSIVE rows(_)
        rows(S) == IF S = {} THEN <<>>
                   ELSE LET j == CHOOSE x \in S : \A y \in S : x <= y
                        IN  <<spine[j]>> \o rows(S \ {j})
    IN  rows(V)

\* the join on the race's results URL
JoinOnPost(url, s) == url = s.postrace_URL

\* ON f.Pre_SourceURL = s.prerace_URL
JoinOn(url, s) == url = s.prerace_URL

\* the URLs the viewer asks for: races of RaceFull_Latest
ViewerURLs == {RaceX, RaceY}

\* get_single_race(pre_source_url): spine_latest ranks the rows of the view
\* again, the LEFT JOIN keeps the rn = 1 row of the race, or NULL
get_single_race ==
    /\ \E url \in ViewerURLs : \E f \in RaceSpine_Latest(RaceSpine) :
          LET view == ViewRows(RaceSpine, f)
              spine_latest ==
                  {j \in 1..Len(view) :
                      j \in Rank1(view, view[j].prerace_URL) /\ JoinOn(url, view[j])}
          IN  \/ /\ spine_latest = {}
                 /\ RaceStatus' = [url |-> url, RaceStatus |-> NULL]
              \/ \E j \in spine_latest :
                     RaceStatus' = [url |-> url, RaceStatus |-> view[j].Status]
    /\ UNCHANGED <<stores, orchestrator, call, soup, pos, url_rows, range>>

NextViewer == get_single_race

ViewerSpec == InitViewer /\ [][NextViewer]_vars

(***************************************************************************)
(* Two orchestrator runs started so that they overlap, over a lifecycle    *)
(* store the resolvers have filled.                                        *)
(***************************************************************************)
\* the stores a day's resolver runs leave: the results page alone, or the
\* racecards page after it
ResolvedSpines ==
    {write_spine_to_bq(<<>>, ResultsFrames[<<bResult>>], 1),
     write_spine_to_bq(write_spine_to_bq(<<>>, ResultsFrames[<<bResult>>], 1),
                       RacesFrames[<<bResult>>], 2)}

InitOverlap ==
    /\ RaceSpine \in ResolvedSpines
    /\ now = RaceSpine[Len(RaceSpine)].load_timestamp
    /\ NotStarted(TwoRuns)

\* main() of each of the two processes, once
NextOverlap ==
    \/ \E r \in Runs : LoadRaces(r)
    \/ \E r \in Runs : ReturnEmpty(r)
    \/ \E r \in Runs : SetupDriver(r)
    \/ \E r \in Runs : NextRace(r)
    \/ \E r \in Runs : SkipPrerace(r)
    \/ \E r \in Runs : ScrapePrerace(r)
    \/ \E r \in Runs : SkipPostrace(r)
    \/ \E r \in Runs : ScrapeResultsHistory(r)
    \/ \E r \in Runs : ScrapeResultsDaily(r)
    \/ \E r \in Runs : Aggregate(r)
    \/ \E r \in Runs : AppendRowHistory(r)
    \/ \E r \in Runs : AppendRowDaily(r)
    \/ \E r \in Runs : DriverQuit(r)
    \/ \E r \in Runs : UploadPreRace(r)
    \/ \E r \in Runs : UploadPostRace(r)
    \/ \E r \in Runs : UploadFails(r)
    \/ \E r \in Runs : append_status_updates(r)

OverlapSpec == InitOverlap /\ [][NextOverlap]_vars

(***************************************************************************)
(* 1. History/1.: get_races_for_date_range and the write of what it        *)
(* returns, one action per turn of the while loop.                         *)
(***************************************************************************)
\* the range starts on a day of November 2025
FirstDay == 11

\* the longest range iterated
MaxDays == 3

Days == FirstDay..(FirstDay + MaxDays - 1)

Digit(n) == SubSeq("0123456789", n + 1, n + 1)

\* current_date.strftime("%Y-%m-%d")
strftime(d) == "2025-11-" \o Digit(d \div 10) \o Digit(d % 10)

\* what the get of a listings page can give: an exception, or a page
Responses ==
    {[raised |-> TRUE, page |-> <<>>]} \cup {[raised |-> FALSE, page |-> p] : p \in Pages}

\* get_race_urls(date_str): the frame with no rows when the get raised
get_race_urls(date_str, response) ==
    IF response.raised THEN <<>> ELSE HistoryPageRows(date_str, response.page, {}, {})

\* an iteration that gives up at the first date whose get raised
give_up_after(d, end, response) == IF response.raised THEN end + 1 ELSE d + 1

\* current_date += timedelta(days=1)
next_date(d, end, response) == d + 1

\* start_date, end_date = strptime(...); dfs = []; current_date = start_date
get_races_for_date_range ==
    /\ call.routine = "none"
    /\ \E s, e \in Days :
          /\ s <= e
          /\ start_date' = s
          /\ end_date' = e
          /\ current_date' = s
    /\ dfs' = <<>>
    /\ requested' = <<>>
    /\ call' = [NoCall EXCEPT !.routine = "Range"]
    /\ UNCHANGED <<stores, orchestrator, soup, pos, url_rows, RaceStatus>>

\* one turn of "while current_date <= end_date"
FetchDate ==
    /\ call.routine = "Range"
    /\ current_date <= end_date
    /\ \E response \in Responses :
          LET date_str == strftime(current_date)
          IN  /\ dfs' = Append(dfs, get_race_urls(date_str, response))
              /\ requested' = Append(requested, [date_str |-> date_str,
                                                 raised |-> response.raised])
              /\ current_date' = next_date(current_date, end_date, response)
    /\ UNCHANGED <<stores, orchestrator, call, soup, pos, url_rows, RaceStatus,
                   start_date, end_date>>

\* combined_df = pd.concat(dfs); write_spine_to_bq(all_races_df)
WriteRange ==
    /\ call.routine = "Range"
    /\ ~call.written
    /\ current_date > end_date
    /\ RaceSpine' = write_spine_to_bq(RaceSpine, Concat(dfs), now + 1)
    /\ now' = IF Concat(dfs) = <<>> THEN now ELSE now + 1
    /\ call' = [call EXCEPT !.written = TRUE]
    /\ UNCHANGED <<Scrape_PreRace, Scrape_PostRace, orchestrator, soup, pos, url_rows,
                   RaceStatus, range>>

NextRange ==
    \/ get_races_for_date_range
    \/ FetchDate
    \/ WriteRange

RangeSpec == Init /\ [][NextRange]_vars

(***************************************************************************)
(* The scheduled runs of 1. History/2., one after the other for ever, over *)
(* a card with one race more than a batch holds.                           *)
(***************************************************************************)
\* the results page of a meeting with MAX_RACES + 1 races
LongCard ==
    [k \in 1..(MAX_RACES + 1) |->
        Block("Ascot", OffTime(k),
              "/racing/results/2025-11-01/ascot/20" \o SubSeq("0123456789", k + 1, k + 1)
                  \o "/some-race",
              FALSE, "")]

LongCardSpine == write_spine_to_bq(<<>>, HistoryPageRows(TODAY, LongCard, {}, {}), 1)

InitFair ==
    /\ RaceSpine = LongCardSpine
    /\ now = 1
    /\ NotStarted(TwoRuns)

NextFair ==
    \/ \E r \in Runs : LoadRaces(r) /\ script'[r] = "History"
    \/ \E r \in Runs : SetupDriver(r)
    \/ \E r \in Runs : NextRace(r)
    \/ \E r \in Runs : ScrapePrerace(r)
    \/ \E r \in Runs : ScrapeResultsHistory(r)
    \/ \E r \in Runs : Aggregate(r)
    \/ \E r \in Runs : AppendRowHistory(r)
    \/ \E r \in Runs : Exit(r)

\* the trigger fires again and again, and a process that is running goes on
FairSpec == InitFair /\ [][NextFair]_vars /\ WF_vars(NextFair)

(***************************************************************************)
(* Vocabulary of the properties.                                           *)
(***************************************************************************)
IdentityFields == {"Date", "Location", "Time", "prerace_URL", "postrace_URL"}

\* the statuses the current-state read can show for an identity
CurrentStatuses(spine, id) == {spine[j].Status : j \in Rank1(spine, id)}

\* process r takes the step that runs its selection query
Loads(r, scripts) == pc[r] = "idle" /\ pc'[r] = "loaded" /\ script'[r] \in scripts

\* process r takes the step that appends its status records
Appends(r, scripts) == pc[r] = "append" /\ pc'[r] = "done" /\ script[r] \in scripts

\* a list of frames holds rows scraped from url
Produced(frames, url) ==
    \E n \in 1..Len(frames) : \E k \in 1..Len(frames[n]) : frames[n][k].SourceURL = url

(***************************************************************************)
(* C1.  Every status record an orchestrator appends for an event carries   *)
(* the Date, Location, Time, prerace_URL and postrace_URL of the row that  *)
(* was selected, with the new Status and a load_timestamp later than every *)
(* timestamp already in the store.                                         *)
(***************************************************************************)
C1_IdentityCarried ==
    [][\A r \in Runs : Appends(r, Scripts) =>
          /\ Len(RaceSpine') = Len(RaceSpine) + Len(df_races[r])
          /\ \A k \in 1..Len(df_races[r]) :
                LET rec == RaceSpine'[Len(RaceSpine) + k]
                    orig == RaceSpine[src_rows[r][k]]
                IN  /\ \A c \in IdentityFields : rec[c] = orig[c]
                    /\ rec.Status = updated_rows[r][k].Status
                    /\ \A j \in 1..Len(RaceSpine) :
                          RaceSpine[j].load_timestamp < rec.load_timestamp]_vars

C2_Batch(r) ==
    script[r] \in Regular =>
        /\ \A k \in 1..Len(df_races[r]) :
              /\ df_races[r][k].Status = "Pending"
              /\ RaceSpine[src_rows[r][k]].Status = "Pending"
        /\ Len(updated_rows[r]) <= Len(df_races[r])
        /\ \A k \in 1..Len(updated_rows[r]) :
              \A c \in {"Date", "Location", "Time"} :
                  updated_rows[r][k][c] = df_races[r][k][c]

(***************************************************************************)
(* C2.  Every row of a regular run's batch has Status Pending and was the  *)
(* rank-1 row of its identity when the query ran, and the run builds       *)
(* status rows for the rows of its batch only: an identity whose current   *)
(* status is anything but Pending is not fetched.                          *)
(***************************************************************************)
C2_OnlyPendingSelected ==
    [][\A r \in Runs :
          /\ C2_Batch(r)'
          /\ Loads(r, Regular) =>
                \A k \in 1..Len(src_rows'[r]) :
                    src_rows'[r][k] \in
                        Rank1(RaceSpine, RaceSpine[src_rows'[r][k]].prerace_URL)]_vars

\* a regular run has built its status rows while some identity stood at Complete
C2_Witness ==
    \E r \in Runs :
        /\ script[r] \in Regular
        /\ pc[r] = "done"
        /\ updated_rows[r] # <<>>
        /\ \E id \in Identities(RaceSpine) :
              /\ id # NULL
              /\ CurrentStatuses(RaceSpine, id) = {"Complete"}
              /\ \A k \in 1..Len(df_races[r]) : df_races[r][k].prerace_URL # id

(***************************************************************************)
(* C3.  Complete is terminal: an identity whose current status is Complete *)
(* keeps that current status in every later state.                         *)
(***************************************************************************)
C3_CompleteIsTerminal ==
    [][\A id \in Identities(RaceSpine) :
          CurrentStatuses(RaceSpine, id) = {"Complete"} =>
              CurrentStatuses(RaceSpine', id) = {"Complete"}]_vars

C4_Expected(st, pre, post) ==
    /\ st = "Complete" <=> (pre /\ post)
    /\ st = "In Progress" <=> (pre # post)
    /\ st = "Pending" <=> (~pre /\ ~post)

(***************************************************************************)
(* C4.  The status a regular run gives an event is Complete exactly when   *)
(* both passes produced rows, In Progress exactly when one of them did,    *)
(* and Pending when neither did.                                           *)
(***************************************************************************)
C4_StatusFromPasses ==
    \A r \in Runs : script[r] \in Regular =>
        /\ pc[r] = "row" =>
              C4_Expected(status[r], prerace_df[r] # <<>>, postrace_df[r] # <<>>)
        /\ \A k \in 1..Len(updated_rows[r]) :
              C4_Expected(updated_rows[r][k].Status,
                          Produced(prerace_data[r], df_races[r][k].prerace_URL),
                          Produced(postrace_data[r], df_races[r][k].postrace_URL))

\* an event with a post-race URL whose after-pass found nothing, before-pass rows
C4_Witness ==
    \E r \in Runs : \E k \in 1..Len(updated_rows[r]) :
        /\ script[r] \in Regular
        /\ HasURL(df_races[r][k].postrace_URL)
        /\ Produced(prerace_data[r], df_races[r][k].prerace_URL)
        /\ ~Produced(postrace_data[r], df_races[r][k].postrace_URL)
        /\ updated_rows[r][k].Status = "In Progress"

(***************************************************************************)
(* C5.  An identity whose current status is In Progress is taken into the  *)
(* batch of the next regular run (unless the batch is full), so that a     *)
(* run in which both passes succeed can move it to Complete.               *)
(***************************************************************************)
C5_InProgressRequeued ==
    [][\A r \in Runs : Loads(r, Regular) =>
          \A id \in Identities(RaceSpine) :
              CurrentStatuses(RaceSpine, id) = {"In Progress"} =>
                  \/ \E k \in 1..Len(src_rows'[r]) :
                        RaceSpine[src_rows'[r][k]].prerace_URL = id
                  \/ Len(src_rows'[r]) = MAX_RACES]_vars

(***************************************************************************)
(* C6.  In every terminal state of a run, however it ended, no browser     *)
(* session is left open.                                                   *)
(***************************************************************************)
C6_DriverReleased ==
    \A r \in Runs : pc[r] \in {"done", "crashed"} => driver[r] # "open"

(***************************************************************************)
(* C7.  A page-load timeout never ends a run: no process is brought down   *)
(* by a TimeoutException.                                                  *)
(***************************************************************************)
C7_TimeoutNotFatal ==
    \A r \in Runs : ~(pc[r] = "crashed" /\ exc[r] = "TimeoutException")

(***************************************************************************)
(* C8.  A pass loads its page at most max_retries times; while the pass is *)
(* still going every load so far has timed out, and at most one load of a  *)
(* pass did not time out.                                                  *)
(***************************************************************************)
C8_BoundedRetry ==
    \A r \in Runs : \A p \in {"pre", "post"} :
        /\ fetches[r][p] <= max_retries
        /\ fetches[r][p] - timeouts[r][p] \in {0, 1}
        /\ pc[r] = p => fetches[r][p] = timeouts[r][p]

\* the third load of a before-pass, after two timeouts, went through
C8_Witness ==
    \E r \in Runs : fetches[r].pre = max_retries /\ timeouts[r].pre = max_retries - 1

(***************************************************************************)
(* C9.  After a remediation pass the current status of every selected      *)
(* identity is "PreRace Completed - " followed by its prior status, and an *)
(* identity that has such a record is not selected by any later            *)
(* remediation run.                                                        *)
(***************************************************************************)
C9_RemediatedOnce ==
    [][\A r \in Runs :
          /\ Appends(r, {"Abandoned"}) =>
                \A k \in 1..Len(df_races[r]) :
                    CurrentStatuses(RaceSpine', df_races[r][k].prerace_URL)
                        = {"PreRace Completed - " \o df_races[r][k].Status}
          /\ Loads(r, {"Abandoned"}) =>
                \A k \in 1..Len(src_rows'[r]) : \A j \in 1..Len(RaceSpine) :
                    RaceSpine[j].prerace_URL = RaceSpine[src_rows'[r][k]].prerace_URL
                        => ~STARTS_WITH(RaceSpine[j].Status, "PreRace Completed")]_vars

(***************************************************************************)
(* C10.  A remediation run never runs an after-pass, and it builds and     *)
(* appends one "PreRace Completed - <prior status>" record for every row   *)
(* of its batch, whether or not the before-pass found competitor rows.     *)
(***************************************************************************)
C10_PreRaceOnly ==
    \A r \in Runs : script[r] = "Abandoned" =>
        /\ pc[r] \notin {"post", "agg", "upload_post"}
        /\ postrace_data[r] = <<>> /\ postrace_df[r] = <<>>
        /\ fetches[r].post = 0
        /\ Len(updated_rows[r]) = IF pc[r] \in {"pre", "row"} THEN i[r] - 1 ELSE i[r]
        /\ \A k \in 1..Len(updated_rows[r]) :
              /\ updated_rows[r][k].prerace_URL = df_races[r][k].prerace_URL
              /\ updated_rows[r][k].Status = "PreRace Completed - " \o df_races[r][k].Status
        /\ pc[r] = "done" =>
              \A k \in 1..Len(df_races[r]) : \E j \in 1..Len(RaceSpine) :
                  /\ RaceSpine[j].prerace_URL = df_races[r][k].prerace_URL
                  /\ RaceSpine[j].Status = "PreRace Completed - " \o df_races[r][k].Status

\* a remediation run whose before-passes found no rows has appended its records
C10_Witness ==
    \E r \in Runs :
        /\ script[r] = "Abandoned"
        /\ pc[r] = "done"
        /\ df_races[r] # <<>>
        /\ prerace_data[r] = <<>>
        /\ \E j \in 1..Len(RaceSpine) :
              /\ RaceSpine[j].prerace_URL = df_races[r][1].prerace_URL
              /\ RaceSpine[j].Status = "PreRace Completed - " \o df_races[r][1].Status

(***************************************************************************)
(* Vocabulary of the resolver properties.                                  *)
(***************************************************************************)
\* the step is one turn of the race loop
Parses == pos' = pos + 1

\* the race block that turn is about
race == soup[pos + 1]

\* the rows that turn added to url_rows
Built == SubSeq(url_rows', Len(url_rows) + 1, Len(url_rows'))

\* the step is the load job of write_spine_to_bq
Writes == ~call.written /\ call'.written

(***************************************************************************)
(* C11.  Whatever routine is running, the rows built from links of one     *)
(* race (its results link, its shortened and its full racecards link) all  *)
(* carry the same prerace_URL.                                             *)
(***************************************************************************)
C11_SameIdentity ==
    (\A k \in 1..pos : soup[k].href \in EventLinks) =>
        \A a, b \in 1..Len(url_rows) : url_rows[a].prerace_URL = url_rows[b].prerace_URL

\* the routines that build both URLs of a link
TwoURLRoutines == {"History", "Results"}

\* the six-segment form the spec gives for a shortened link
SixSegment(link) ==
    CASE link = ShortLink -> FullLink
      [] link = RootlessLink -> "/racecards/2025-11-01/Ascot/racecard/123/Some-Race"

C12_Rewritten(links) ==
    (Parses /\ call.routine \in TwoURLRoutines /\ race.href \in links) =>
        \A k \in 1..Len(Built) :
            /\ Built[k].prerace_URL = BASE \o SixSegment(race.href)
            /\ Built[k].postrace_URL \in
                  {"", BASE \o Replace(SixSegment(race.href), "/racecards/", "/results/")}

(***************************************************************************)
(* C12 as stated.  A shortened racecards link, with or without the /racing *)
(* root, is rewritten to <marker>/<date>/<location>/racecard/<id>/<name>   *)
(* before the two URLs are built.                                          *)
(***************************************************************************)
C12_ShortenedRewritten == [][C12_Rewritten({ShortLink, RootlessLink})]_vars

(***************************************************************************)
(* C12 amended.  A shortened racecards link that has the /racing root      *)
(* (six segments: racing/racecards/<date>/<location>/<id>/<name>) is       *)
(* rewritten to racing/racecards/<date>/<location>/racecard/<id>/<name>    *)
(* before the two URLs are built; a link of five segments, the root left   *)
(* out, is used as it is.                                                  *)
(***************************************************************************)
C12_RootedRewritten ==
    [][/\ C12_Rewritten({ShortLink})
       /\ (Parses /\ call.routine \in TwoURLRoutines /\ race.href = RootlessLink) =>
              \A k \in 1..Len(Built) : Built[k].prerace_URL = BASE \o RootlessLink]_vars

\* a row was built from the shortened link that has the root
C12_Witness ==
    /\ call.routine \in TwoURLRoutines
    /\ pos = 1 /\ soup[1].href = ShortLink /\ ~soup[1].abandoned
    /\ Len(url_rows) = 1
    /\ url_rows[1].prerace_URL = BASE \o FullLink
    /\ url_rows[1].postrace_URL # ""

\* the link names a marker but no location or race
LacksSegments(href) ==
    /\ href # NULL
    /\ Contains(href, "/racecards/") \/ Contains(href, "/results/")
    /\ Len(Split(StripSlash(href))) < 5

(***************************************************************************)
(* C13.  A race block whose link holds a marker but too few path segments  *)
(* adds no row to url_rows.                                                *)
(***************************************************************************)
C13_ShortLinkDropped ==
    [][(Parses /\ LacksSegments(race.href)) => Built = <<>>]_vars

(***************************************************************************)
(* C14.  A row is built only from a link that holds exactly one of the     *)
(* markers /racecards/ and /results/.                                      *)
(***************************************************************************)
C14_ExactlyOneMarker ==
    [][(Parses /\ Built # <<>>) =>
          /\ race.href # NULL
          /\ Contains(race.href, "/racecards/") # Contains(race.href, "/results/")]_vars

(***************************************************************************)
(* C15.  A row built from a race block that carries the cancellation       *)
(* marker has postrace_URL "", and the load job stores the rows with the   *)
(* postrace_URL they were built with.                                      *)
(***************************************************************************)
C15_CancelledPostBlank ==
    [][/\ (Parses /\ race.abandoned) =>
              \A k \in 1..Len(Built) : Built[k].postrace_URL = ""
       /\ Writes =>
              /\ Len(RaceSpine') = Len(RaceSpine) + Len(url_rows)
              /\ \A k \in 1..Len(url_rows) :
                    RaceSpine'[Len(RaceSpine) + k].postrace_URL = url_rows[k].postrace_URL]_vars

\* the record of a cancelled race is in the store, its results URL left out
C15_Witness ==
    /\ call.routine \in TwoURLRoutines
    /\ call.written
    /\ Len(soup) = 1 /\ soup[1].abandoned /\ soup[1].href = ResultsLink
    /\ Len(RaceSpine) = 1
    /\ RaceSpine[1].prerace_URL = BASE \o FullLink
    /\ RaceSpine[1].postrace_URL = ""

\* the Status the spec gives a race block at discovery
C16_Expected(b) ==
    IF ~b.abandoned THEN "Pending"
    ELSE IF b.reason # "" THEN b.reason
    ELSE "Abandoned"

(***************************************************************************)
(* C16.  Every row a resolver builds, and so every record it stores, has   *)
(* Status Pending unless the race block carries the cancellation marker;   *)
(* then it is the header's "Abandoned: <reason>" text when the meeting     *)
(* header has one and "Abandoned" otherwise.                               *)
(***************************************************************************)
C16_ResolverStatus ==
    [][/\ Parses => \A k \in 1..Len(Built) : Built[k].Status = C16_Expected(race)
       /\ Writes => \A k \in 1..Len(url_rows) :
              RaceSpine'[Len(RaceSpine) + k].Status = url_rows[k].Status]_vars

\* a race block the loop records when nothing else on the page is wrong
WellFormed(b) == ~b.raises /\ b.href \in EventLinks

(***************************************************************************)
(* C17.  The race loop goes through the whole page: once it is over, every *)
(* well-formed race block has its row in url_rows, whatever the blocks     *)
(* before it did (raised, had no link, had a link that is rejected).       *)
(***************************************************************************)
C17_PageNotAborted ==
    /\ pos <= Len(soup)
    /\ (call.routine \in Routines /\ call.skip_prerace_urls = {}) =>
          /\ Len(url_rows) >= Cardinality({k \in 1..pos : WellFormed(soup[k])})
          /\ \A k \in 1..pos : WellFormed(soup[k]) =>
                \E j \in 1..Len(url_rows) :
                    /\ url_rows[j].Time = soup[k].Time
                    /\ url_rows[j].Location = soup[k].Location
          /\ call.written => pos = Len(soup) /\ Len(RaceSpine) = Len(url_rows)

\* the first block raised, the second one is in the store
C17_Witness ==
    /\ call.routine \in Routines
    /\ call.written
    /\ Len(soup) = 2 /\ soup[1].raises /\ WellFormed(soup[2])
    /\ Len(RaceSpine) = 1
    /\ RaceSpine[1].Time = soup[2].Time

\* the rows of the table that belong to url
RowsOf(url) == {j \in 1..Len(RaceSpine) : RaceSpine[j].prerace_URL = url}

(***************************************************************************)
(* C18.  The current state of an identity is a record of that identity     *)
(* that no other record of it is later than, wherever in the table the     *)
(* records lie: the view keeps such a row for every identity, the viewer   *)
(* returns the Status of such a row, and for (X, Pending, 1),              *)
(* (X, Complete, 3), (X, In Progress, 2) in any order it returns Complete. *)
(***************************************************************************)
C18_LatestWins ==
    /\ \A f \in RaceSpine_Latest(RaceSpine) :
          /\ DOMAIN f = {RaceSpine[j].prerace_URL : j \in 1..Len(RaceSpine)}
          /\ \A id \in DOMAIN f :
                /\ f[id] \in RowsOf(id)
                /\ \A k \in RowsOf(id) :
                      RaceSpine[k].load_timestamp <= RaceSpine[f[id]].load_timestamp
    /\ RaceStatus.url # "" =>
          IF RowsOf(RaceStatus.url) = {} THEN RaceStatus.RaceStatus = NULL
          ELSE \E j \in RowsOf(RaceStatus.url) :
                  /\ RaceSpine[j].Status = RaceStatus.RaceStatus
                  /\ \A k \in RowsOf(RaceStatus.url) :
                        RaceSpine[k].load_timestamp <= RaceSpine[j].load_timestamp
    /\ ( /\ RaceStatus.url = RaceX
         /\ Range(RaceSpine) = {Record(RaceX, "Pending", 1), Record(RaceX, "Complete", 3),
                                Record(RaceX, "In Progress", 2)} )
          => RaceStatus.RaceStatus = "Complete"

\* the example of the spec, the latest record neither first nor last in the table
C18_Witness ==
    /\ RaceSpine = <<Record(RaceX, "Pending", 1), Record(RaceX, "Complete", 3),
                     Record(RaceX, "In Progress", 2)>>
    /\ RaceStatus = [url |-> RaceX, RaceStatus |-> "Complete"]

(***************************************************************************)
(* C19.  Reading the current state again changes nothing: the view of the  *)
(* view's rows is those rows, the table extended with the rows the view    *)
(* returned has the same current statuses as the table, and the viewer,    *)
(* which ranks the rows of the view a second time, returns a current       *)
(* status of the table.                                                    *)
(***************************************************************************)
C19_ReadIdempotent ==
    /\ \A f \in RaceSpine_Latest(RaceSpine) :
          LET out == ViewRows(RaceSpine, f)
              ext == RaceSpine \o out
          IN  /\ Identities(out) = Identities(RaceSpine)
              /\ \A g \in RaceSpine_Latest(out) : ViewRows(out, g) = out
              /\ \A id \in Identities(RaceSpine) :
                    /\ CurrentStatuses(out, id) = {RaceSpine[f[id]].Status}
                    /\ CurrentStatuses(ext, id) = CurrentStatuses(RaceSpine, id)
              /\ Identities(ext) = Identities(RaceSpine)
    /\ RaceStatus.url # "" =>
          IF RaceStatus.url \in Identities(RaceSpine)
          THEN RaceStatus.RaceStatus \in CurrentStatuses(RaceSpine, RaceStatus.url)
          ELSE RaceStatus.RaceStatus = NULL

\* the viewer has read a race that has an older record with another status
C19_Witness ==
    /\ RaceStatus.url = RaceX
    /\ RaceStatus.RaceStatus = "In Progress"
    /\ \E j \in RowsOf(RaceX) : RaceSpine[j].Status = "Pending"
    /\ RowsOf(RaceY) # {}

\* table t is still the head of table u
Extends(u, t) == Len(u) >= Len(t) /\ SubSeq(u, 1, Len(t)) = t

(***************************************************************************)
(* C20.  No step of a resolver, a regular run or a remediation run edits   *)
(* or removes a row of RaceSpine or of a field store: every step leaves    *)
(* the rows that are there as they are, and a load job adds all the rows   *)
(* it was given, also the rows whose prerace_URL the table already holds   *)
(* (a load job that failed adds none).                                     *)
(***************************************************************************)
C20_AppendOnly ==
    [][/\ Extends(RaceSpine', RaceSpine)
       /\ Extends(Scrape_PreRace', Scrape_PreRace)
       /\ Extends(Scrape_PostRace', Scrape_PostRace)
       /\ \A r \in Runs : Appends(r, Scripts) =>
              /\ Len(RaceSpine') = Len(RaceSpine) + Len(updated_rows[r])
              /\ \A k \in 1..Len(updated_rows[r]) :
                    RaceSpine'[Len(RaceSpine) + k].Status = updated_rows[r][k].Status
       /\ now' # now =>
              \/ Len(RaceSpine') > Len(RaceSpine)
              \/ \E r \in Runs : pc'[r] = "crashed" /\ exc'[r] = "GoogleAPIError"]_vars

\* the store holds, next to the first record of a race, a later one
C20_Witness ==
    \E j, k \in 1..Len(RaceSpine) :
        /\ j < k
        /\ RaceSpine[j].prerace_URL = RaceSpine[k].prerace_URL
        /\ RaceSpine[j].prerace_URL # NULL
        /\ RaceSpine[j].load_timestamp < RaceSpine[k].load_timestamp
        /\ RaceSpine[k].Status = "PreRace Completed - " \o RaceSpine[j].Status

(***************************************************************************)
(* Vocabulary of the properties of overlapping runs.                       *)
(***************************************************************************)
\* rows a+1 .. a+Len(rows) of the table carry the fields of rows, in order
SegmentAt(table, a, rows) ==
    /\ a + Len(rows) <= Len(table)
    /\ \A k \in 1..Len(rows) : \A c \in DOMAIN rows[k] : table[a + k][c] = rows[k][c]

\* every process of P has its rows in the table, no table row counted twice
Placed(table, P, rows) ==
    \E f \in [P -> 0..Len(table)] :
        /\ \A r \in P : SegmentAt(table, f[r], rows[r])
        /\ \A r, q \in P : r # q =>
              \/ rows[r] = <<>> \/ rows[q] = <<>>
              \/ f[r] + Len(rows[r]) <= f[q]
              \/ f[q] + Len(rows[q]) <= f[r]

\* the regular runs that have appended their status records
Finished == {r \in Runs : pc[r] = "done" /\ script[r] \in Regular /\ df_races[r] # <<>>}

\* the regular runs past the upload of the before-pass rows, none failed
PreUploaded ==
    {r \in Runs : script[r] \in Regular /\ pc[r] \in {"upload_post", "append", "done"}
                  /\ df_races[r] # <<>>}

\* the regular runs past the upload of the after-pass rows
PostUploaded ==
    {r \in Runs : script[r] \in Regular /\ pc[r] \in {"append", "done"} /\ df_races[r] # <<>>}

\* process r selected the event with the pre-race URL url
Selected(r, url) == \E k \in 1..Len(df_races[r]) : df_races[r][k].prerace_URL = url

C22_FailedDateSkipped ==
    call.routine = "Range" =>
        /\ Len(requested) = current_date - start_date
        /\ Len(dfs) = Len(requested)
        /\ current_date <= end_date + 1
        /\ \A k \in 1..Len(requested) :
              /\ requested[k].date_str = strftime(start_date + k - 1)
              /\ requested[k].raised => dfs[k] = <<>>
              /\ \A n \in 1..Len(dfs[k]) : dfs[k][n].Date = requested[k].date_str
        /\ call.written =>
              /\ current_date = end_date + 1
              /\ Len(RaceSpine) = Len(Concat(dfs))
              /\ SegmentAt(RaceSpine, 0, Concat(dfs))
              /\ (\A k \in 1..Len(requested) : requested[k].raised) =>
                    RaceSpine = <<>> /\ now = 0

\* the get of the first date raised, a later date gave rows, and the write is done
C22_Witness ==
    /\ call.routine = "Range"
    /\ call.written
    /\ Len(requested) >= 2
    /\ requested[1].raised
    /\ ~requested[Len(requested)].raised
    /\ \E j \in 1..Len(RaceSpine) : RaceSpine[j].Date = requested[Len(requested)].date_str

\* the pre-race URLs of the rows of a frame
URLsOf(rows) == {rows[n].prerace_URL : n \in 1..Len(rows)}

(***************************************************************************)
(* C23.  For every race block the race loop has been through whose link is *)
(* a link of the event, the historic routine, the 22:00 routine and the    *)
(* 08:00 routine build rows with the same prerace_URL.                     *)
(***************************************************************************)
C23_RoutinesAgree ==
    \A k \in 1..pos : soup[k].href \in EventLinks =>
        /\ URLsOf(HistoryRows[soup[k], {}, {}]) = URLsOf(ResultsRows[soup[k]])
        /\ URLsOf(ResultsRows[soup[k]]) = URLsOf(RacesRows[soup[k]])

(***************************************************************************)
(* C24.  When a regular run appends its status records, every event of its *)
(* batch for which neither pass produced rows gets a new Pending record    *)
(* under its own prerace_URL, and Pending is its current status afterwards *)
(* (so the next regular run's query can select it again).                  *)
(***************************************************************************)
C24_PendingReappended ==
    [][\A r \in Runs : Appends(r, Regular) =>
          \A k \in 1..Len(df_races[r]) :
              (/\ ~Produced(prerace_data[r], df_races[r][k].prerace_URL)
               /\ ~Produced(postrace_data[r], df_races[r][k].postrace_URL)) =>
                  /\ \E j \in (Len(RaceSpine) + 1)..Len(RaceSpine') :
                        /\ RaceSpine'[j].prerace_URL = df_races[r][k].prerace_URL
                        /\ RaceSpine'[j].Status = "Pending"
                  /\ CurrentStatuses(RaceSpine', df_races[r][k].prerace_URL) = {"Pending"}]_vars

(***************************************************************************)
(* C25.  Under repeated runs of the regular script, every event whose      *)
(* current status is Pending is eventually in the batch of some run.       *)
(***************************************************************************)
C25_PendingEventuallySelected ==
    \A id \in Identities(LongCardSpine) :
        (CurrentStatuses(RaceSpine, id) = {"Pending"}) ~> (\E r \in Runs : Selected(r, id))

\* the statuses of the newest records that carry the Date, Location and Time of
\* the event ev, the fields every status record of an orchestrator has
LatestOfEvent(spine, ev) ==
    LET same == {j \in 1..Len(spine) :
                    \A c \in {"Date", "Location", "Time"} : spine[j][c] = ev[c]}
    IN  {spine[j].Status : j \in {j \in same :
            \A n \in same : spine[n].load_timestamp <= spine[j].load_timestamp}}

(***************************************************************************)
(* C26.  When two regular runs that both selected an event have finished   *)
(* and one of them appended Complete for it, the event's current status is *)
(* Complete, whether the event is looked up by its prerace_URL or by its   *)
(* Date, Location and Time.                                                *)
(***************************************************************************)
C26_CompleteSurvives ==
    \A r, q \in Finished : r # q =>
        \A k \in 1..Len(updated_rows[r]) :
            (/\ updated_rows[r][k].Status = "Complete"
             /\ Selected(q, df_races[r][k].prerace_URL)) =>
                \/ CurrentStatuses(RaceSpine, df_races[r][k].prerace_URL) = {"Complete"}
                \/ LatestOfEvent(RaceSpine, df_races[r][k]) = {"Complete"}

\* a field store holds a row whose back-reference is url
Holds(table, url) == \E n \in 1..Len(table) : table[n].SourceURL = url

(***************************************************************************)
(* C27.  A regular run changes the lifecycle store in its last step only,  *)
(* after both uploads; when it appends a Complete record for an event,     *)
(* both field stores already hold rows whose SourceURL is a URL of that    *)
(* event; and a run whose field-store load job failed appends nothing.     *)
(***************************************************************************)
C27_StatusAfterFields ==
    [][\A r \in Runs :
          /\ (script[r] \in Regular /\ pc'[r] # pc[r] /\ RaceSpine' # RaceSpine) =>
                Appends(r, Regular)
          /\ Appends(r, Regular) =>
                \A k \in 1..Len(updated_rows[r]) :
                    updated_rows[r][k].Status = "Complete" =>
                        /\ Holds(Scrape_PreRace, df_races[r][k].prerace_URL)
                        /\ Holds(Scrape_PostRace, df_races[r][k].postrace_URL)
          /\ (pc[r] \in {"upload_pre", "upload_post"} /\ pc'[r] = "crashed") =>
                RaceSpine' = RaceSpine
          /\ pc[r] = "crashed" => RaceSpine' = RaceSpine \/ pc'[r] = pc[r]]_vars

\* a regular run has appended a Complete record (a record of 2. Daily/2., which
\* has no prerace_URL), the rows of both passes uploaded
C27_Witness ==
    \E r \in Runs : \E k \in 1..Len(updated_rows[r]) :
        /\ script[r] \in Regular
        /\ pc[r] = "done"
        /\ updated_rows[r][k].Status = "Complete"
        /\ \E j \in 1..Len(RaceSpine) :
              RaceSpine[j].Status = "Complete" /\ RaceSpine[j].prerace_URL = NULL
        /\ Holds(Scrape_PreRace, df_races[r][k].prerace_URL)
        /\ Holds(Scrape_PostRace, df_races[r][k].postrace_URL)

\* a stored URL that is missing or the empty string
Blank(url) == url \in {NULL, ""}

(***************************************************************************)
(* C28.  For an event of a regular run's batch whose postrace_URL is blank *)
(* the run loads no results page, its after-pass frame stays empty, and    *)
(* the status it computes and the status record it builds are Pending or   *)
(* In Progress, never Complete.                                            *)
(***************************************************************************)
C28_BlankPostNeverComplete ==
    \A r \in Runs : script[r] \in Regular =>
        /\ (pc[r] \in {"pre", "post", "agg", "row"} /\ Blank(row(r).postrace_URL)) =>
              /\ fetches[r].post = 0
              /\ postrace_df[r] = <<>>
              /\ status[r] \in {"Pending", "In Progress"}
        /\ \A k \in 1..Len(updated_rows[r]) :
              Blank(df_races[r][k].postrace_URL) =>
                  /\ updated_rows[r][k].Status \in {"Pending", "In Progress"}
                  /\ ~Produced(postrace_data[r], df_races[r][k].postrace_URL)

\* a run has built In Progress for an event stored with postrace_URL ""
C28_Witness ==
    \E r \in Runs : \E k \in 1..Len(updated_rows[r]) :
        /\ script[r] \in Regular
        /\ df_races[r][k].postrace_URL = ""
        /\ Produced(prerace_data[r], df_races[r][k].prerace_URL)
        /\ updated_rows[r][k].Status = "In Progress"

\* the rows of a frame are the competitors of one page, each once
SingleAttempt(df) ==
    /\ Len(df) <= MaxRunners
    /\ \A a, b \in 1..Len(df) : a # b => df[a].HorseNumber # df[b].HorseNumber
    /\ \A a, b \in 1..Len(df) : df[a].SourceURL = df[b].SourceURL

(***************************************************************************)
(* C29.  While a pass is between two attempts it holds no row of an        *)
(* earlier attempt, and every frame a pass returned, kept by main() or     *)
(* not, has the competitors of one page load, each once.                   *)
(***************************************************************************)
C29_SingleAttempt ==
    \A r \in Runs :
        /\ pc[r] \in {"pre", "post"} => data[r] = <<>>
        /\ SingleAttempt(prerace_df[r])
        /\ SingleAttempt(postrace_df[r])
        /\ \A n \in 1..Len(prerace_data[r]) : SingleAttempt(prerace_data[r][n])
        /\ \A n \in 1..Len(postrace_data[r]) : SingleAttempt(postrace_data[r][n])

\* a before-pass returned rows after an attempt that timed out
C29_Witness ==
    \E r \in Runs :
        /\ timeouts[r].pre >= 1
        /\ fetches[r].pre > timeouts[r].pre
        /\ prerace_df[r] # <<>>

(***************************************************************************)
(* C30.  A run whose selection query returned no rows ends in its next     *)
(* step, with the lifecycle store and both field stores as they were, and  *)
(* at no time has it a browser session.                                    *)
(***************************************************************************)
C30_EmptyBatchNoEffect ==
    [][\A r \in Runs :
          /\ (pc'[r] \notin {"idle", "crashed"} /\ df_races'[r] = <<>>) =>
                /\ pc'[r] \in {"loaded", "done"}
                /\ driver'[r] = "none"
          /\ (pc[r] = "loaded" /\ df_races[r] = <<>> /\ pc'[r] # pc[r]) =>
                /\ pc'[r] = "done"
                /\ RaceSpine' = RaceSpine
                /\ Scrape_PreRace' = Scrape_PreRace
                /\ Scrape_PostRace' = Scrape_PostRace]_vars

\* a remediation run over a store without a cancelled event has ended
C30_Witness ==
    \E r \in Runs :
        /\ script[r] = "Abandoned"
        /\ pc[r] = "done"
        /\ df_races[r] = <<>>
        /\ RaceSpine # <<>>
        /\ driver[r] = "none"

====
